---- MODULE Spec2Model ----
(***************************************************************************)
(* NeoMutt colour code: the ANSI SGR escape parser (color/parse_ansi.c)    *)
(* and the colour directives with their object resolver (color/command.c). *)
(*                                                                         *)
(* C strings are sequences of one-character strings; index i of a C string *)
(* is element i+1 of the sequence and the terminating NUL is read at index *)
(* Len.  The escape byte \033 is written ESC.  Digit runs are at most four *)
(* characters long, so strtoul and the int it is assigned to never         *)
(* overflow.                                                               *)
(***************************************************************************)
EXTENDS Integers, Sequences, FiniteSets, TLC

VARIABLES
  buf,        \* ansi_color_parse_single: the string argument
  params,     \* the SGR parameters buf was built from (<<>> if it was not)
  ansi_arg,   \* TRUE iff the AnsiColor pointer argument is non-NULL
  dry_run,    \* the dry_run argument
  ansi,       \* the AnsiColor accumulator the caller owns
  ansi0,      \* the accumulator as it was when the call was entered
  seq_len,    \* local seq_len
  pos,        \* local pos
  prev,       \* pos at the start of the most recent loop iteration (-1: none)
  rule,       \* the branch of the loop body the most recent iteration took
  pc,         \* "call", "loop", "done"
  ret,        \* the value returned (-1 while the call is running)
  calls,      \* number of calls made on this accumulator
  str,        \* ansi_color_seq_length: the string argument
  len_ret,    \* ansi_color_seq_length: the value returned (-1 before the call)
  token,      \* parse_object: the token in buf->data
  rest,       \* parse_object: the tokens left in s
  obj,        \* parse_object: its outcome
  OptNoCurses,      \* global: the display is not initialised
  StartupComplete,  \* global: the configuration has been read
  colors,     \* the three storage tiers: SimpleColors, QuotedColors, the lists
  directive,  \* the most recent directive: its tokens and what it returned
  ndirs       \* number of directives interpreted

vars == <<buf, params, ansi_arg, dry_run, ansi, ansi0, seq_len, pos, prev, rule,
          pc, ret, calls, str, len_ret, token, rest, obj,
          OptNoCurses, StartupComplete, colors, directive, ndirs>>

ansiVars == <<buf, params, ansi_arg, dry_run, ansi, ansi0, seq_len, pos, prev,
              rule, pc, ret, calls>>
lenVars == <<str, len_ret>>
objVars == <<token, rest, obj>>
dirVars == <<OptNoCurses, StartupComplete, colors, directive, ndirs>>

-----------------------------------------------------------------------------
(* Characters and C-string access *)

ESC == "ESC"
NUL == "NUL"
NullStr == <<"(null)">>          \* the NULL pointer passed as a string

DigitChars == <<"0", "1", "2", "3", "4", "5", "6", "7", "8", "9">>
Digits == {DigitChars[i] : i \in 1..10}

isdigit(c) == c \in Digits

DigitVal(c) == (CHOOSE i \in 1..10 : DigitChars[i] = c) - 1

\* s[i] in C: the NUL terminator is read at index Len(s)
At(s, i) == IF i < Len(s) THEN s[i + 1] ELSE NUL

\* mutt_str_startswith(s + off, prefix) != 0
StartsWith(s, off, prefix) ==
  \A k \in 1..Len(prefix) : At(s, off + k - 1) = prefix[k]

\* the index of the first non-digit at or after i: where strtoul stops
RECURSIVE DigitsEnd(_, _)
DigitsEnd(s, i) == IF isdigit(At(s, i)) THEN DigitsEnd(s, i + 1) ELSE i

\* the decimal value of the digits s[i..j-1]
RECURSIVE DecValue(_, _, _)
DecValue(s, i, j) ==
  IF j <= i THEN 0 ELSE 10 * DecValue(s, i, j - 1) + DigitVal(At(s, j - 1))

-----------------------------------------------------------------------------
(* parse_ansi.c *)

COLOR_DEFAULT == -1

A_BOLD == "A_BOLD"
A_ITALIC == "A_ITALIC"
A_UNDERLINE == "A_UNDERLINE"
A_BLINK == "A_BLINK"
A_REVERSE == "A_REVERSE"
Attrs == {A_BOLD, A_ITALIC, A_UNDERLINE, A_BLINK, A_REVERSE}

NoAttrColor == "NULL"            \* ansi->attr_color = NULL

ansi_is_end_char(c) == (c = "m") \/ (c = ";")

\* the iterations of the while loop of ansi_skip_sequence, from index i
RECURSIVE SkipLoop(_, _)
SkipLoop(s, i) ==
  IF (At(s, i) # NUL) /\ ~ansi_is_end_char(At(s, i))
    THEN 1 + SkipLoop(s, i + 1)
    ELSE 0

\* ansi_skip_sequence(s + off)
ansi_skip_sequence(s, off) ==
  IF (s = NullStr) \/ (At(s, off) = NUL) THEN 0 ELSE 1 + SkipLoop(s, off)

\* the while loop of ansi_color_seq_length, from index i: the index it stops at
RECURSIVE SeqScan(_, _)
SeqScan(s, i) ==
  IF (At(s, i) # NUL) /\ (isdigit(At(s, i)) \/ (At(s, i) = ";"))
    THEN SeqScan(s, i + 1)
    ELSE i

\* a variant that returns the index of 'm' instead of the length
SeqLengthOffByOne(s) ==
  IF (s = NullStr) \/ (At(s, 0) = NUL) THEN 0
  ELSE IF (At(s, 0) # ESC) \/ (At(s, 1) # "[") THEN 0
  ELSE LET i == SeqScan(s, 2) IN
       IF At(s, i) = "m" THEN i ELSE 0

ansi_color_seq_length(s) ==
  IF (s = NullStr) \/ (At(s, 0) = NUL) THEN 0
  ELSE IF (At(s, 0) # ESC) \/ (At(s, 1) # "[") THEN 0
  ELSE LET i == SeqScan(s, 2) IN
       IF At(s, i) = "m" THEN i + 1 ELSE 0

-----------------------------------------------------------------------------
(* ansi_color_parse_single: the body of its while loop, one branch each *)

BasicDigits == {"0", "1", "2", "3", "4", "5", "6", "7"}

\* a variant of the reset that keeps the cached attr_color
ResetKeepsCache(a) ==
  [a EXCEPT !.fg = COLOR_DEFAULT, !.bg = COLOR_DEFAULT, !.attrs = {}]

\* lines 128-131: the full reset
ResetAnsi(a) ==
  [a EXCEPT !.fg = COLOR_DEFAULT, !.bg = COLOR_DEFAULT, !.attrs = {},
            !.attr_color = NoAttrColor]

\* a variant that assigns the bit instead of or-ing it in
AssignAttr(a, bit) == [a EXCEPT !.attrs = {bit}]

\* ansi->attrs |= bit
OrAttr(a, bit) == [a EXCEPT !.attrs = @ \cup {bit}]

\* ansi->fg = value, ansi->bg = value
SetFg(a, value) == [a EXCEPT !.fg = value]
SetBg(a, value) == [a EXCEPT !.bg = value]

\* the outcome of one iteration: the new pos, the new accumulator, whether the
\* iteration executed `return pos`, and the branch taken
Outcome(p, a, returned, r) == [pos |-> p, ansi |-> a, returned |-> returned, rule |-> r]

\* lines 157-167 and 210-220: strtoul on the palette index, then the range test
PaletteValue(b, p) == DecValue(b, p + 5, DigitsEnd(b, p + 5))
PaletteOk(b, p) ==
  /\ PaletteValue(b, p) >= 0
  /\ PaletteValue(b, p) < 256
  /\ ansi_is_end_char(At(b, DigitsEnd(b, p + 5)))

\* lines 172-174 and 225-227: the three skips of a true colour group
TrueColourSkip(b, p) ==
  LET p1 == p + ansi_skip_sequence(b, p + 5)
      p2 == p1 + ansi_skip_sequence(b, p1)
  IN  p2 + ansi_skip_sequence(b, p2)

\* lines 253-254: the final else branch
RECURSIVE OtherSkip(_, _, _)
OtherSkip(b, sl, p) ==
  IF (p < sl) /\ (At(b, p) # ";") THEN OtherSkip(b, sl, p + 1) ELSE p

\* lines 144-191: buf[pos] == '3', not followed by an end character
ForegroundStep(b, p, a) ==
  LET c1 == At(b, p + 1)
      c2 == At(b, p + 2)
  IN
  IF (c1 \in BasicDigits) /\ ansi_is_end_char(c2)
    THEN Outcome(p + 3, SetFg(a, DigitVal(c1)), FALSE, "fg_basic")
  ELSE IF c1 = "8" THEN
    IF StartsWith(b, p, <<"3", "8", ";", "5", ";">>) /\ isdigit(At(b, p + 5))
      THEN IF PaletteOk(b, p)
             THEN Outcome(DigitsEnd(b, p + 5), SetFg(a, PaletteValue(b, p)),
                          FALSE, "fg_palette")
             ELSE Outcome(p + ansi_skip_sequence(b, p), a, FALSE, "fg_palette_bad")
    ELSE IF StartsWith(b, p, <<"3", "8", ";", "2", ";">>) /\ isdigit(At(b, p + 5))
      THEN Outcome(TrueColourSkip(b, p), a, FALSE, "fg_rgb")
    ELSE Outcome(p, a, TRUE, "fg_return")
  ELSE IF (c1 = "9") /\ ansi_is_end_char(c2)
    THEN Outcome(p + 2, SetFg(a, COLOR_DEFAULT), FALSE, "fg_default")
  ELSE Outcome(p + ansi_skip_sequence(b, p), a, FALSE, "fg_skip")

\* lines 197-240: buf[pos] == '4', not followed by an end character
BackgroundStep(b, p, a) ==
  LET c1 == At(b, p + 1)
      c2 == At(b, p + 2)
  IN
  IF c1 \in BasicDigits
    THEN Outcome(p + 3, SetBg(a, DigitVal(c1)), FALSE, "bg_basic")
  ELSE IF c1 = "8" THEN
    IF StartsWith(b, p, <<"4", "8", ";", "5", ";">>) /\ isdigit(At(b, p + 5))
      THEN IF PaletteOk(b, p)
             THEN Outcome(DigitsEnd(b, p + 5), SetBg(a, PaletteValue(b, p)),
                          FALSE, "bg_palette")
             ELSE Outcome(p + ansi_skip_sequence(b, p), a, FALSE, "bg_palette_bad")
    ELSE IF StartsWith(b, p, <<"4", "8", ";", "2", ";">>) /\ isdigit(At(b, p + 5))
      THEN Outcome(TrueColourSkip(b, p), a, FALSE, "bg_rgb")
    ELSE Outcome(p + ansi_skip_sequence(b, p), a, FALSE, "bg_skip")
  ELSE IF (c1 = "9") /\ ansi_is_end_char(c2)
    THEN Outcome(p + 2, SetBg(a, COLOR_DEFAULT), FALSE, "bg_default")
  ELSE Outcome(p, a, FALSE, "bg_none")

\* lines 122-255: one iteration of the while loop, entered with pos < seq_len
LoopBody(b, sl, p, a) ==
  LET c0 == At(b, p)
      c1 == At(b, p + 1)
  IN
  IF (c0 = "0") /\ isdigit(c1)
    THEN Outcome(p + 1, a, FALSE, "leading_zero")
  ELSE IF (c0 = "0") /\ ansi_is_end_char(c1)
    THEN Outcome(p + 2, ResetAnsi(a), FALSE, "reset")
  ELSE IF (c0 = "1") /\ ansi_is_end_char(c1)
    THEN Outcome(p + 2, OrAttr(a, A_BOLD), FALSE, "bold")
  ELSE IF (c0 = "3") /\ ansi_is_end_char(c1)
    THEN Outcome(p + 2, OrAttr(a, A_ITALIC), FALSE, "italic")
  ELSE IF c0 = "3"
    THEN ForegroundStep(b, p, a)
  ELSE IF (c0 = "4") /\ ansi_is_end_char(c1)
    THEN Outcome(p + 2, OrAttr(a, A_UNDERLINE), FALSE, "underline")
  ELSE IF c0 = "4"
    THEN BackgroundStep(b, p, a)
  ELSE IF (c0 = "5") /\ ansi_is_end_char(c1)
    THEN Outcome(p + 2, OrAttr(a, A_BLINK), FALSE, "blink")
  ELSE IF (c0 = "7") /\ ansi_is_end_char(c1)
    THEN Outcome(p + 2, OrAttr(a, A_REVERSE), FALSE, "reverse")
  ELSE Outcome(OtherSkip(b, sl, p), a, FALSE, "other")

\* The whole call as a function: the loop run from (p, a) until it returns.
\* An iteration that changes neither pos nor the accumulator repeats for ever
\* (the body reads nothing else): the call then does not return.
RECURSIVE RunLoop(_, _, _, _)
RunLoop(b, sl, p, a) ==
  IF p >= sl THEN [returns |-> TRUE, ret |-> p, ansi |-> a]
  ELSE LET o == LoopBody(b, sl, p, a) IN
       IF o.returned THEN [returns |-> TRUE, ret |-> o.pos, ansi |-> o.ansi]
       ELSE IF (o.pos = p) /\ (o.ansi = a)
         THEN [returns |-> FALSE, ret |-> -1, ansi |-> a]
       ELSE RunLoop(b, sl, o.pos, o.ansi)

\* ansi_color_parse_single(b, has ? &a : NULL, dry)
ParseSingle(b, has, a, dry) ==
  LET sl == ansi_color_seq_length(b) IN
  IF sl = 0 THEN [returns |-> TRUE, ret |-> 0, ansi |-> a]
  ELSE IF dry \/ ~has THEN [returns |-> TRUE, ret |-> sl, ansi |-> a]
  ELSE RunLoop(b, sl, 2, a)

-----------------------------------------------------------------------------
(* Inputs *)

MaxParams == 2       \* most SGR parameters (or groups) in one sequence
MaxCalls == 3        \* most calls on one accumulator
MaxLen == 5          \* longest string handed to ansi_color_seq_length

\* SGR parameters, and ';'-joined groups of them, that sequences are built from
ParamTokens ==
  { <<>>, <<"0">>, <<"1">>, <<"2">>, <<"3">>, <<"4">>, <<"5">>, <<"7">>,
    <<"0", "0">>, <<"0", "1">>,
    <<"3", "1">>, <<"3", "8">>, <<"3", "9">>,
    <<"3", "1", "0">>, <<"3", "9", "0">>,
    <<"4", "1">>, <<"4", "8">>, <<"4", "9">>,
    <<"4", "1", "0">>, <<"4", "9", "0">>,
    <<"3", "8", ";", "5", ";", "2", "0", "0">>,
    <<"3", "8", ";", "5", ";", "3", "0", "0">>,
    <<"4", "8", ";", "5", ";", "2", "0", "0">>,
    <<"4", "8", ";", "5", ";", "3", "0", "0">>,
    <<"3", "8", ";", "2", ";", "1", ";", "1", ";", "1">>,
    <<"4", "8", ";", "2", ";", "1", ";", "1", ";", "1">>,
    <<"3", "8", ";", "2", ";", "9", ";", "8", ";", "6">>,
    <<"4", "8", ";", "2", ";", "9", ";", "8", ";", "6">>,
    <<"3", "8", ";", "2", ";", "1", "2", "3", "4">>,
    <<"4", "8", ";", "2", ";", "1", "2", "3", "4">> }

\* the text that follows the sequence in the input
Trailers == { <<>>, <<"t">> }

RECURSIVE Join(_)
Join(ps) ==
  IF Len(ps) = 0 THEN <<>>
  ELSE IF Len(ps) = 1 THEN ps[1]
  ELSE ps[1] \o <<";">> \o Join(Tail(ps))

\* ESC [ p1 ; ... ; pn m trailer
Render(ps, tr) == <<ESC, "[">> \o Join(ps) \o <<"m">> \o tr

ParamLists(n) == UNION { [1..k -> ParamTokens] : k \in 0..n }

\* inputs that are no SGR sequence
NonSequences ==
  { NullStr, <<>>, <<"t">>, <<ESC>>, <<ESC, "[">>, <<ESC, "[", "1">>,
    <<ESC, "[", "1", "t", "m">>, <<ESC, "t", "m">>, <<"[", "1", "m">> }

Cleared ==
  [fg |-> COLOR_DEFAULT, bg |-> COLOR_DEFAULT, attrs |-> {}, attr_color |-> NoAttrColor]

\* accumulators a caller may hold when it calls
InitAnsi ==
  { Cleared,
    [fg |-> 1, bg |-> 4, attrs |-> {A_BOLD, A_REVERSE}, attr_color |-> "cached"] }

SeqLenAlphabet == {ESC, "[", "1", ";", "m", "t"}
SeqLenInputs ==
  {NullStr} \cup UNION { [1..k -> SeqLenAlphabet] : k \in 0..MaxLen }

-----------------------------------------------------------------------------
(* ansi_color_parse_single as a state machine *)

InitAnsiCall ==
  /\ \/ \E ps \in ParamLists(MaxParams), tr \in Trailers :
          /\ params = ps
          /\ buf = Render(ps, tr)
     \/ \E b \in NonSequences :
          /\ params = <<>>
          /\ buf = b
  /\ ansi_arg \in BOOLEAN
  /\ dry_run \in BOOLEAN
  /\ ansi \in InitAnsi
  /\ ansi0 = ansi
  /\ seq_len = 0
  /\ pos = 0
  /\ prev = -1
  /\ rule = "none"
  /\ pc = "call"
  /\ ret = -1
  /\ calls = 1

\* a table or a set of lists with no entry: every object is unset
EmptyMap == [x \in {} |-> "unset"]

\* the tiers after construction: nothing is set
EmptyColors ==
  [SimpleColors |-> EmptyMap, QuotedColors |-> EmptyMap, RegexLists |-> EmptyMap]

NoDirective == [name |-> "none"]

\* no directive is interpreted
IdleDirective ==
  /\ OptNoCurses = FALSE
  /\ StartupComplete = FALSE
  /\ colors = EmptyColors
  /\ directive = NoDirective
  /\ ndirs = 0

IdleObject ==
  /\ token = [word |-> "", suffix |-> <<>>]
  /\ rest = <<>>
  /\ obj = [rc |-> "none"]

InitIdle ==
  /\ str = <<>>
  /\ len_ret = -1
  /\ IdleObject
  /\ IdleDirective

Init == InitAnsiCall /\ InitIdle

\* a variant of the entry that ignores dry_run
EnterIgnoresDryRun ==
  /\ pc = "call"
  /\ seq_len' = ansi_color_seq_length(buf)
  /\ IF seq_len' = 0
       THEN pc' = "done" /\ ret' = 0 /\ pos' = pos
     ELSE IF ~ansi_arg
       THEN pc' = "done" /\ ret' = seq_len' /\ pos' = pos
     ELSE pc' = "loop" /\ ret' = ret /\ pos' = 2
  /\ UNCHANGED <<buf, params, ansi_arg, dry_run, ansi, ansi0, prev, rule, calls>>
  /\ UNCHANGED <<lenVars, objVars, dirVars>>

\* lines 111-118: up to the loop
Enter ==
  /\ pc = "call"
  /\ seq_len' = ansi_color_seq_length(buf)
  /\ IF seq_len' = 0
       THEN pc' = "done" /\ ret' = 0 /\ pos' = pos
     ELSE IF dry_run \/ ~ansi_arg
       THEN pc' = "done" /\ ret' = seq_len' /\ pos' = pos
     ELSE pc' = "loop" /\ ret' = ret /\ pos' = 2
  /\ UNCHANGED <<buf, params, ansi_arg, dry_run, ansi, ansi0, prev, rule, calls>>
  /\ UNCHANGED <<lenVars, objVars, dirVars>>

\* lines 120-256: one iteration of the while loop
Iterate ==
  /\ pc = "loop"
  /\ pos < seq_len
  /\ LET o == LoopBody(buf, seq_len, pos, ansi) IN
       /\ pos' = o.pos
       /\ ansi' = o.ansi
       /\ rule' = o.rule
       /\ prev' = pos
       /\ IF o.returned
            THEN pc' = "done" /\ ret' = o.pos
            ELSE pc' = "loop" /\ ret' = ret
  /\ UNCHANGED <<buf, params, ansi_arg, dry_run, ansi0, seq_len, calls>>
  /\ UNCHANGED <<lenVars, objVars, dirVars>>

\* line 258: the loop condition fails
Return ==
  /\ pc = "loop"
  /\ pos >= seq_len
  /\ pc' = "done"
  /\ ret' = pos
  /\ UNCHANGED <<buf, params, ansi_arg, dry_run, ansi, ansi0, seq_len, pos, prev,
                 rule, calls>>
  /\ UNCHANGED <<lenVars, objVars, dirVars>>

Next == Enter \/ Iterate \/ Return

Spec == Init /\ [][Next]_vars

-----------------------------------------------------------------------------
(* Repeated calls on one accumulator, each handed a sequence of one parameter *)

InitCalls ==
  /\ \E t \in ParamTokens :
       /\ params = <<t>>
       /\ buf = Render(<<t>>, <<>>)
  /\ ansi_arg \in BOOLEAN
  /\ dry_run \in BOOLEAN
  /\ ansi = Cleared
  /\ ansi0 = ansi
  /\ seq_len = 0
  /\ pos = 0
  /\ prev = -1
  /\ rule = "none"
  /\ pc = "call"
  /\ ret = -1
  /\ calls = 1
  /\ InitIdle

\* the caller calls again, on the accumulator the last call left
Recall ==
  /\ pc = "done"
  /\ calls < MaxCalls
  /\ calls' = calls + 1
  /\ \E t \in ParamTokens :
       /\ params' = <<t>>
       /\ buf' = Render(<<t>>, <<>>)
  /\ ansi_arg' \in BOOLEAN
  /\ dry_run' \in BOOLEAN
  /\ ansi0' = ansi
  /\ seq_len' = 0
  /\ pos' = 0
  /\ prev' = -1
  /\ rule' = "none"
  /\ pc' = "call"
  /\ ret' = -1
  /\ UNCHANGED <<ansi, lenVars, objVars, dirVars>>

NextCalls == Enter \/ Iterate \/ Return \/ Recall

SpecCalls == InitCalls /\ [][NextCalls]_vars

-----------------------------------------------------------------------------
(* ansi_color_seq_length on its own *)

IdleAnsiCall ==
  /\ buf = <<>>
  /\ params = <<>>
  /\ ansi_arg = FALSE
  /\ dry_run = TRUE
  /\ ansi = Cleared
  /\ ansi0 = Cleared
  /\ seq_len = 0
  /\ pos = 0
  /\ prev = -1
  /\ rule = "none"
  /\ pc = "idle"
  /\ ret = -1
  /\ calls = 0

InitLen ==
  /\ IdleAnsiCall
  /\ str \in SeqLenInputs
  /\ len_ret = -1
  /\ IdleObject
  /\ IdleDirective

\* lines 79-97
CallSeqLength ==
  /\ len_ret = -1
  /\ len_ret' = ansi_color_seq_length(str)
  /\ UNCHANGED <<str, ansiVars, objVars, dirVars>>

NextLen == CallSeqLength

SpecLen == InitLen /\ [][NextLen]_vars

-----------------------------------------------------------------------------
(* Claims about ansi_color_parse_single *)

Parsing == ansi_arg /\ ~dry_run      \* a call that is no dry run

\* C1: in a call that is no dry run, every iteration of the scan loop that
\* does not return leaves pos strictly greater than it found it, so the loop
\* ends after at most seq_len iterations.
C1_EveryIterationAdvances ==
  (pc = "loop" /\ prev >= 0) => pos > prev

\* C2: when a call that is no dry run returns, the value returned is
\* ansi_color_seq_length(buf), and pos never exceeds that length.
C2_ReturnsSeqLength ==
  /\ (pc = "done" /\ Parsing) => ret = ansi_color_seq_length(buf)
  /\ (pc \in {"loop", "done"} /\ Parsing) => pos <= ansi_color_seq_length(buf)

\* the input is ESC, '[', digits and ';' only, then 'm' at C index k
SgrUpTo(s, k) ==
  /\ s # NullStr
  /\ k >= 2
  /\ k < Len(s)
  /\ s[1] = ESC
  /\ s[2] = "["
  /\ \A i \in 3..k : s[i] \in Digits \cup {";"}
  /\ s[k + 1] = "m"

\* C3: ansi_color_seq_length returns k+1 when the input is ESC '[', then only
\* digits and ';', then 'm' at index k, and 0 for every other input; a
\* non-zero result is at least 3.
C3_SeqLength ==
  (len_ret # -1) =>
    /\ \A k \in 0..MaxLen : SgrUpTo(str, k) => len_ret = k + 1
    /\ (~\E k \in 0..MaxLen : SgrUpTo(str, k)) => len_ret = 0
    /\ (len_ret # 0) => len_ret >= 3

C3_Witness ==
  /\ len_ret = 5
  /\ str = <<ESC, "[", "1", ";", "m">>

\* C4: a dry run, or a call without an accumulator, returns the sequence
\* length and changes no field of the accumulator; a call on an input that
\* does not begin with a sequence returns 0 and changes nothing either.
C4_DryRunFrame ==
  /\ (dry_run \/ ~ansi_arg \/ ansi_color_seq_length(buf) = 0) => ansi = ansi0
  /\ (pc = "done" /\ (dry_run \/ ~ansi_arg)) => ret = ansi_color_seq_length(buf)
  /\ (pc = "done" /\ ansi_color_seq_length(buf) = 0) => ret = 0

C4_Witness ==
  /\ pc = "done"
  /\ dry_run
  /\ ansi_arg
  /\ params = << <<"0">>, <<"3", "1">> >>
  /\ ret = 7
  /\ ansi.attrs = {A_BOLD, A_REVERSE}

\* C5: an iteration that finds pos at a parameter that is exactly 0 leaves the
\* accumulator cleared (default colours, no attributes, no cached attr_color),
\* and what the call leaves behind is what the parameters after that 0 make of
\* a cleared accumulator, whatever accumulator the call was entered with.
ExactZeroAt(b, p) ==
  /\ p >= 2
  /\ At(b, p - 1) \in {"[", ";"}
  /\ At(b, p) = "0"
  /\ ansi_is_end_char(At(b, p + 1))

C5_ZeroResets ==
  (pc \in {"loop", "done"} /\ ExactZeroAt(buf, prev)) =>
    /\ ansi = Cleared
    /\ pos = prev + 2
    /\ \A a \in InitAnsi :
         RunLoop(buf, seq_len, 2, a) = RunLoop(buf, seq_len, pos, Cleared)

C5_Witness ==
  /\ pc = "done"
  /\ params = << <<"4", "1">>, <<"0">> >>
  /\ ansi0.attr_color = "cached"
  /\ ansi = Cleared

\* the SGR parameters that set one attribute each
AttrParams ==
  { <<"1", A_BOLD>>, <<"3", A_ITALIC>>, <<"4", A_UNDERLINE>>, <<"5", A_BLINK>>,
    <<"7", A_REVERSE>> }

\* the iteration about to run finds pos at a parameter made of the character c
ParamAt(c) ==
  /\ pc = "loop"
  /\ pos < seq_len
  /\ At(buf, pos) = c
  /\ ansi_is_end_char(At(buf, pos + 1))

\* C6: over any sequence of calls on one accumulator, an iteration that finds
\* pos at a parameter 1, 3, 4, 5 or 7 adds exactly that parameter's attribute
\* and changes nothing else; no step removes an attribute unless it applies
\* the reset at a 0, and no step changes the foreground (background) unless
\* it applies the reset or processes a parameter that begins with 3 (with 4).
C6_Step ==
  /\ \A ap \in AttrParams :
       (ParamAt(ap[1]) /\ Iterate) =>
         ansi' = [ansi EXCEPT !.attrs = @ \cup {ap[2]}]
  /\ (ansi.attrs \subseteq ansi'.attrs) \/ ParamAt("0")
  /\ (ansi'.fg = ansi.fg) \/ ParamAt("0") \/ (pc = "loop" /\ At(buf, pos) = "3")
  /\ (ansi'.bg = ansi.bg) \/ ParamAt("0") \/ (pc = "loop" /\ At(buf, pos) = "4")

C6_Accumulates == [][C6_Step]_vars

C6_Witness ==
  /\ calls = 3
  /\ pc = "done"
  /\ params = << <<"5">> >>
  /\ ansi = [fg |-> 1, bg |-> COLOR_DEFAULT, attrs |-> {A_BOLD, A_BLINK},
             attr_color |-> NoAttrColor]

\* a parameter group 38;5;n or 48;5;n
IsPaletteGroup(t) ==
  /\ Len(t) >= 6
  /\ SubSeq(t, 1, 5) \in { <<"3", "8", ";", "5", ";">>, <<"4", "8", ";", "5", ";">> }
  /\ \A i \in 6..Len(t) : isdigit(t[i])

PaletteIndex(t) == DecValue(t, 5, Len(t))

\* the index in buf of the parameter that follows the first one
AfterFirstParam == 2 + Len(params[1]) + 1

FirstParamStarted ==
  /\ Parsing
  /\ pc \in {"loop", "done"}
  /\ prev >= 2
  /\ Len(params) >= 1

\* C7: the group 38;5;n (48;5;n) sets the foreground (background) to n and
\* nothing else when n < 256, and leaves the accumulator exactly as it was
\* when n >= 256.  Stated for the first group of a sequence, up to the point
\* where pos reaches the parameter after it.
C7_PaletteGroup ==
  (FirstParamStarted /\ IsPaletteGroup(params[1]) /\ pos <= AfterFirstParam) =>
    ansi = IF PaletteIndex(params[1]) >= 256 THEN ansi0
           ELSE IF params[1][1] = "3"
             THEN [ansi0 EXCEPT !.fg = PaletteIndex(params[1])]
             ELSE [ansi0 EXCEPT !.bg = PaletteIndex(params[1])]

\* the background counterpart of a foreground-family parameter
Mirror(t) == IF (Len(t) >= 2) /\ (t[1] = "3") THEN <<"4">> \o Tail(t) ELSE t

IsBackgroundFamily(t) == (Len(t) >= 2) /\ (t[1] = "4")

SwapColours(a) == [a EXCEPT !.fg = a.bg, !.bg = a.fg]

\* C8: for a sequence without background-family parameters, the call on the
\* sequence with every foreground-family parameter replaced by its background
\* counterpart returns the same value and leaves the same accumulator with
\* foreground and background exchanged.
C8_BackgroundMirrorsForeground ==
  (/\ pc = "done"
   /\ Parsing
   /\ seq_len > 0
   /\ \A i \in DOMAIN params : ~IsBackgroundFamily(params[i])) =>
    ParseSingle(Render([i \in DOMAIN params |-> Mirror(params[i])],
                       SubSeq(buf, seq_len + 1, Len(buf))),
                TRUE, SwapColours(ansi0), FALSE)
      = [returns |-> TRUE, ret |-> ret, ansi |-> SwapColours(ansi)]

\* a group 38;2;r;g;b or 48;2;r;g;b
IsTrueColourGroup(t) ==
  /\ Len(t) >= 10
  /\ SubSeq(t, 1, 5) \in { <<"3", "8", ";", "2", ";">>, <<"4", "8", ";", "2", ";">> }
  /\ Cardinality({i \in 1..Len(t) : t[i] = ";"}) = 4
  /\ \A i \in 6..Len(t) : (t[i] = ";") => (i < Len(t) /\ isdigit(t[i + 1]) /\ isdigit(t[i - 1]))

\* C9: the iteration that finds a true colour group leaves pos at the
\* parameter that follows b, and up to there the attributes and the other
\* colour field are as they were.  Stated for the first group of a sequence.
C9_TrueColourIsOneUnit ==
  (FirstParamStarted /\ IsTrueColourGroup(params[1])) =>
    /\ pos >= AfterFirstParam
    /\ (pos <= AfterFirstParam) =>
         /\ ansi.attrs = ansi0.attrs
         /\ (params[1][1] = "3") => ansi.bg = ansi0.bg
         /\ (params[1][1] = "4") => ansi.fg = ansi0.fg

-----------------------------------------------------------------------------
(* command.c: the object resolver *)

\* A token is a word followed, without a space, by a suffix of characters.
\* The words are those of WordLower; none but "quoted" begins with "quoted".

COLOR_QUOTES_MAX == 9

MaxSuffix == 2       \* longest suffix fused to a word

\* lines 52-118: ColorFields
ColorFields ==
  [ attachment |-> "MT_COLOR_ATTACHMENT",
    attach_headers |-> "MT_COLOR_ATTACH_HEADERS",
    body |-> "MT_COLOR_BODY",
    bold |-> "MT_COLOR_BOLD",
    error |-> "MT_COLOR_ERROR",
    hdrdefault |-> "MT_COLOR_HDRDEFAULT",
    header |-> "MT_COLOR_HEADER",
    index |-> "MT_COLOR_INDEX",
    index_author |-> "MT_COLOR_INDEX_AUTHOR",
    index_collapsed |-> "MT_COLOR_INDEX_COLLAPSED",
    index_date |-> "MT_COLOR_INDEX_DATE",
    index_flags |-> "MT_COLOR_INDEX_FLAGS",
    index_label |-> "MT_COLOR_INDEX_LABEL",
    index_number |-> "MT_COLOR_INDEX_NUMBER",
    index_size |-> "MT_COLOR_INDEX_SIZE",
    index_subject |-> "MT_COLOR_INDEX_SUBJECT",
    index_tag |-> "MT_COLOR_INDEX_TAG",
    index_tags |-> "MT_COLOR_INDEX_TAGS",
    indicator |-> "MT_COLOR_INDICATOR",
    italic |-> "MT_COLOR_ITALIC",
    markers |-> "MT_COLOR_MARKERS",
    message |-> "MT_COLOR_MESSAGE",
    normal |-> "MT_COLOR_NORMAL",
    options |-> "MT_COLOR_OPTIONS",
    progress |-> "MT_COLOR_PROGRESS",
    prompt |-> "MT_COLOR_PROMPT",
    quoted |-> "MT_COLOR_QUOTED",
    search |-> "MT_COLOR_SEARCH",
    sidebar_background |-> "MT_COLOR_SIDEBAR_BACKGROUND",
    sidebar_divider |-> "MT_COLOR_SIDEBAR_DIVIDER",
    sidebar_flagged |-> "MT_COLOR_SIDEBAR_FLAGGED",
    sidebar_highlight |-> "MT_COLOR_SIDEBAR_HIGHLIGHT",
    sidebar_indicator |-> "MT_COLOR_SIDEBAR_INDICATOR",
    sidebar_new |-> "MT_COLOR_SIDEBAR_NEW",
    sidebar_ordinary |-> "MT_COLOR_SIDEBAR_ORDINARY",
    sidebar_spool_file |-> "MT_COLOR_SIDEBAR_SPOOLFILE",
    sidebar_spoolfile |-> "MT_COLOR_SIDEBAR_SPOOLFILE",
    sidebar_unread |-> "MT_COLOR_SIDEBAR_UNREAD",
    signature |-> "MT_COLOR_SIGNATURE",
    status |-> "MT_COLOR_STATUS",
    stripe_even |-> "MT_COLOR_STRIPE_EVEN",
    stripe_odd |-> "MT_COLOR_STRIPE_ODD",
    tilde |-> "MT_COLOR_TILDE",
    tree |-> "MT_COLOR_TREE",
    underline |-> "MT_COLOR_UNDERLINE",
    warning |-> "MT_COLOR_WARNING" ]

\* lines 107-118: ComposeColorFields
ComposeColorFields ==
  [ header |-> "MT_COLOR_COMPOSE_HEADER",
    security_encrypt |-> "MT_COLOR_COMPOSE_SECURITY_ENCRYPT",
    security_sign |-> "MT_COLOR_COMPOSE_SECURITY_SIGN",
    security_both |-> "MT_COLOR_COMPOSE_SECURITY_BOTH",
    security_none |-> "MT_COLOR_COMPOSE_SECURITY_NONE" ]

\* words in other than lower case, and words that name nothing
OtherWords ==
  [ QUOTED |-> "quoted", Status |-> "status", COMPOSE |-> "compose",
    Security_None |-> "security_none", compose |-> "compose", bogus |-> "bogus" ]

\* the lower-case form of a word
WordLower(w) == IF w \in DOMAIN OtherWords THEN OtherWords[w] ELSE w

Words == DOMAIN ColorFields \cup DOMAIN ComposeColorFields \cup DOMAIN OtherWords

\* mutt_istr_equal(data, name): the whole token, whatever its case
TokenIEquals(t, name) == (t.suffix = <<>>) /\ (WordLower(t.word) = name)

\* the -1 of mutt_map_get_value, among identifiers written as strings
NotInMap == "-1"

\* mutt_map_get_value(data, map): the first entry whose name is the token,
\* whatever its case; -1 if there is none
mutt_map_get_value(t, map) ==
  IF (t.suffix = <<>>) /\ (WordLower(t.word) \in DOMAIN map)
    THEN map[WordLower(t.word)]
    ELSE NotInMap

\* mutt_str_atoi_full(x, &val): the whole of x is an optionally signed
\* decimal int
IsSign(c) == c \in {"-", "+"}
AtoiDigits(x) == IF (Len(x) > 0) /\ IsSign(x[1]) THEN Tail(x) ELSE x
mutt_str_atoi_full(x) ==
  LET ds == AtoiDigits(x) IN
  IF (Len(ds) > 0) /\ (\A i \in 1..Len(ds) : isdigit(ds[i]))
    THEN [ok |-> TRUE,
          val |-> IF (Len(x) > 0) /\ (x[1] = "-")
                    THEN 0 - DecValue(ds, 0, Len(ds))
                    ELSE DecValue(ds, 0, Len(ds))]
    ELSE [ok |-> FALSE, val |-> 0]

MoreArgs(s) == Len(s) > 0

\* what parse_object leaves: the result, *cid and *ql (as the callers
\* initialise them unless set), the message in err, buf->data and s
Resolved(rc, cid, ql, err, t, s) ==
  [rc |-> rc, cid |-> cid, ql |-> ql, err |-> err, token |-> t, rest |-> s]

\* lines 162-177: a token that begins with "quoted"
ParseQuoted(t, s) ==
  LET n == mutt_str_atoi_full(t.suffix) IN
  IF (t.suffix # <<>>) /\ (~n.ok \/ (n.val > COLOR_QUOTES_MAX))
    THEN Resolved("MUTT_CMD_WARNING", "MT_COLOR_NONE", 0, "no such object", t, s)
    ELSE Resolved("MUTT_CMD_SUCCESS", "MT_COLOR_QUOTED",
                  IF t.suffix # <<>> THEN n.val ELSE 0, "", t, s)

\* lines 179-198: "compose" and the token after it
ParseCompose(t, s) ==
  IF ~MoreArgs(s)
    THEN Resolved("MUTT_CMD_WARNING", "MT_COLOR_NONE", 0, "too few arguments", t, s)
  ELSE LET rc == mutt_map_get_value(Head(s), ComposeColorFields) IN
       IF rc = NotInMap
         THEN Resolved("MUTT_CMD_WARNING", "MT_COLOR_NONE", 0, "no such object",
                       Head(s), Tail(s))
         ELSE Resolved("MUTT_CMD_SUCCESS", rc, 0, "", Head(s), Tail(s))

\* lines 157-213
parse_object(t, s) ==
  IF t.word = "quoted" THEN ParseQuoted(t, s)
  ELSE IF TokenIEquals(t, "compose") THEN ParseCompose(t, s)
  ELSE LET rc == mutt_map_get_value(t, ColorFields) IN
       IF rc = NotInMap
         THEN Resolved("MUTT_CMD_WARNING", "MT_COLOR_NONE", 0, "no such object", t, s)
         ELSE Resolved("MUTT_CMD_SUCCESS", rc, 0, "", t, s)

SuffixChars == {"0", "1", "9", "-", "+", "x"}
Suffixes == UNION { [1..k -> SuffixChars] : k \in 0..MaxSuffix }

ObjectTokens ==
  { [word |-> w, suffix |-> <<>>] : w \in Words }
    \cup { [word |-> w, suffix |-> x] : w \in {"quoted", "QUOTED", "status"}, x \in Suffixes }

RestLists ==
  { <<>> } \cup { <<[word |-> w, suffix |-> <<>>]>> : w \in {"header", "Security_None", "bogus", "status"} }

InitObj ==
  /\ IdleAnsiCall
  /\ str = <<>>
  /\ len_ret = -1
  /\ token \in ObjectTokens
  /\ rest \in RestLists
  /\ obj = [rc |-> "none"]
  /\ IdleDirective

\* a caller hands the token it extracted to parse_object
ParseObject ==
  /\ obj.rc = "none"
  /\ obj' = parse_object(token, rest)
  /\ token' = obj'.token
  /\ rest' = obj'.rest
  /\ UNCHANGED <<ansiVars, lenVars, dirVars>>

NextObj == ParseObject

SpecObj == InitObj /\ [][NextObj]_vars

\* the suffix is an unsigned decimal number
IsDecimal(x) == (Len(x) > 0) /\ (\A i \in 1..Len(x) : isdigit(x[i]))

\* C10: a token that begins with "quoted" resolves, to MT_COLOR_QUOTED and
\* depth d, only if its suffix is empty (d = 0) or a decimal integer d with
\* 0 <= d <= COLOR_QUOTES_MAX; any other suffix fails with the warning "no
\* such object"; the depth of a resolved token is in [0, COLOR_QUOTES_MAX].
C10_QuotedDepth ==
  (obj.rc # "none" /\ token.word = "quoted") =>
    /\ IF (token.suffix = <<>>) \/
          (IsDecimal(token.suffix) /\
             DecValue(token.suffix, 0, Len(token.suffix)) <= COLOR_QUOTES_MAX)
         THEN /\ obj.rc = "MUTT_CMD_SUCCESS"
              /\ obj.cid = "MT_COLOR_QUOTED"
              /\ obj.ql = DecValue(token.suffix, 0, Len(token.suffix))
         ELSE /\ obj.rc = "MUTT_CMD_WARNING"
              /\ obj.err = "no such object"
    /\ (obj.rc = "MUTT_CMD_SUCCESS") => obj.ql \in 0..COLOR_QUOTES_MAX

\* the token names an object: a name of ColorFields, "quoted" with nothing or
\* a depth of 0..COLOR_QUOTES_MAX fused to it, or (after "compose") a name of
\* ComposeColorFields; names are compared in lower case
IsObjectName(t, composed) ==
  \/ /\ ~composed
     /\ t.suffix = <<>>
     /\ WordLower(t.word) \in DOMAIN ColorFields
  \/ /\ ~composed
     /\ t.word = "quoted"
     /\ IsDecimal(t.suffix)
     /\ DecValue(t.suffix, 0, Len(t.suffix)) <= COLOR_QUOTES_MAX
  \/ /\ composed
     /\ t.suffix = <<>>
     /\ WordLower(t.word) \in DOMAIN ComposeColorFields

\* the outcome came through the "compose" branch
ViaCompose(o) ==
  \/ o.cid \in {ComposeColorFields[n] : n \in DOMAIN ComposeColorFields}
  \/ o.err = "too few arguments"

SameName(t, u) == (WordLower(t.word) = WordLower(u.word)) /\ (t.suffix = u.suffix)

\* C11: two different object names never resolve to the same object and
\* depth, and a token that is no object name fails with "no such object".
C11_ResolverInjective ==
  (obj.rc # "none") =>
    /\ (obj.rc = "MUTT_CMD_SUCCESS") =>
         \A u \in ObjectTokens : \A s \in RestLists :
           LET o == parse_object(u, s) IN
           (/\ o.rc = "MUTT_CMD_SUCCESS"
            /\ IsObjectName(o.token, ViaCompose(o))
            /\ o.cid = obj.cid
            /\ o.ql = obj.ql) => SameName(o.token, token)
    /\ (~IsObjectName(token, ViaCompose(obj))) =>
         (obj.rc = "MUTT_CMD_WARNING" /\ obj.err = "no such object")

\* C19: the iteration that clears the accumulator found pos at a parameter
\* whose text is exactly 0; no parameter of more than one digit clears it.
C19_OnlyExactZeroResets ==
  (pc \in {"loop", "done"} /\ rule = "reset") => ExactZeroAt(buf, prev)

-----------------------------------------------------------------------------
(* command.c: the directives color, mono, uncolor and unmono *)

\* The tiers are kept as maps that hold the entries that are set: an object
\* missing from SimpleColors, a depth missing from QuotedColors, is unset and
\* an object missing from RegexLists has an empty list.  A token read as a
\* whole (a colour name, a pattern, a number) is a record like an object
\* token: a number has the empty word and its digits as the suffix.

MaxDirs == 3         \* directives interpreted in one behaviour

Tok(w) == [word |-> w, suffix |-> <<>>]
Fused(w, x) == [word |-> w, suffix |-> x]

MapGet(f, k, d) == IF k \in DOMAIN f THEN f[k] ELSE d
MapSet(f, k, v) == [x \in DOMAIN f \cup {k} |-> IF x = k THEN v ELSE f[x]]
MapDel(f, k) == [x \in DOMAIN f \ {k} |-> f[x]]

AttrColor(fg, bg, attrs) == [fg |-> fg, bg |-> bg, attrs |-> attrs]

\* the objects that own a list of pattern bindings
RegexColorLists ==
  { "MT_COLOR_ATTACH_HEADERS", "MT_COLOR_BODY", "MT_COLOR_HEADER",
    "MT_COLOR_INDEX_AUTHOR", "MT_COLOR_INDEX_COLLAPSED", "MT_COLOR_INDEX_DATE",
    "MT_COLOR_INDEX_FLAGS", "MT_COLOR_INDEX_LABEL", "MT_COLOR_INDEX",
    "MT_COLOR_INDEX_NUMBER", "MT_COLOR_INDEX_SIZE", "MT_COLOR_INDEX_SUBJECT",
    "MT_COLOR_INDEX_TAG", "MT_COLOR_INDEX_TAGS", "MT_COLOR_STATUS" }

mutt_color_has_pattern(cid) == cid \in RegexColorLists

\* what a directive leaves: the result, the message in err, the tiers, the
\* notifications sent, the outcome of the default colours probe ("none" if
\* it was not made) and the tokens left in s
Returned(rc, err, C, sent, probed, s) ==
  [rc |-> rc, err |-> err, colors |-> C, sent |-> sent, probed |-> probed,
   rest |-> s]

\* what a colour callback leaves: the result, the message, *fg, *bg, *attrs
\* and the tokens left in s
Parsed(rc, err, fg, bg, attrs, s) ==
  [rc |-> rc, err |-> err, fg |-> fg, bg |-> bg, attrs |-> attrs, rest |-> s]

ColourNames == [red |-> 1, blue |-> 4, default |-> COLOR_DEFAULT]

IsColourName(t) == (t.suffix = <<>>) /\ (t.word \in DOMAIN ColourNames)

\* parse_color_pair: a foreground and a background colour
parse_color_pair(s, fg, bg, attrs) ==
  IF Len(s) < 2
    THEN Parsed("MUTT_CMD_WARNING", "too few arguments", fg, bg, attrs, <<>>)
  ELSE IF ~IsColourName(s[1]) \/ ~IsColourName(s[2])
    THEN Parsed("MUTT_CMD_WARNING", "no such color", fg, bg, attrs, Tail(Tail(s)))
  ELSE Parsed("MUTT_CMD_SUCCESS", "", ColourNames[s[1].word],
              ColourNames[s[2].word], attrs, Tail(Tail(s)))

AttrNames == [bold |-> {A_BOLD}, underline |-> {A_UNDERLINE}]

\* parse_attr_spec: an attribute, and no colours
parse_attr_spec(s, fg, bg, attrs) ==
  IF ~MoreArgs(s)
    THEN Parsed("MUTT_CMD_WARNING", "too few arguments", fg, bg, attrs, s)
  ELSE IF (Head(s).suffix # <<>>) \/ (Head(s).word \notin DOMAIN AttrNames)
    THEN Parsed("MUTT_CMD_WARNING", "no such attribute", fg, bg, attrs, Tail(s))
  ELSE Parsed("MUTT_CMD_SUCCESS", "", fg, bg, attrs \cup AttrNames[Head(s).word],
              Tail(s))

\* line 354: callback(buf, s, &fg, &bg, &attrs, err)
Callback(callback, s, fg, bg, attrs) ==
  IF callback = "parse_color_pair"
    THEN parse_color_pair(s, fg, bg, attrs)
    ELSE parse_attr_spec(s, fg, bg, attrs)

\* a pattern that does not compile
BadPatterns == { Tok("[") }

\* add_pattern: the binding of a pattern already in the list is replaced in
\* place, a new one is appended; a pattern that does not compile is refused
add_pattern(list, pat, attr, match) ==
  IF pat \in BadPatterns
    THEN [rc |-> "MUTT_CMD_ERROR", err |-> "bad regex", list |-> list]
  ELSE IF \E i \in DOMAIN list : list[i].pattern = pat
    THEN [rc |-> "MUTT_CMD_SUCCESS", err |-> "",
          list |-> [i \in DOMAIN list |->
                      IF list[i].pattern = pat
                        THEN [pattern |-> pat, attr |-> attr, match |-> match]
                        ELSE list[i]]]
  ELSE [rc |-> "MUTT_CMD_SUCCESS", err |-> "",
        list |-> Append(list, [pattern |-> pat, attr |-> attr, match |-> match])]

SetList(C, cid, list) ==
  [C EXCEPT !.RegexLists = IF list = <<>> THEN MapDel(@, cid)
                           ELSE MapSet(@, cid, list)]

\* regex_colors_parse_color_list: for an object with a list, the status
\* object apart, bind the pattern; the value returned says whether it did
regex_colors_parse_color_list(cid, pat, attr, C) ==
  IF (cid = "MT_COLOR_STATUS") \/ (cid \notin RegexColorLists)
    THEN [handled |-> FALSE, rc |-> "MUTT_CMD_SUCCESS", err |-> "", colors |-> C]
    ELSE LET r == add_pattern(MapGet(C.RegexLists, cid, <<>>), pat, attr, 0) IN
         [handled |-> TRUE, rc |-> r.rc, err |-> r.err,
          colors |-> SetList(C, cid, r.list)]

\* quoted_colors_parse_color: for the quoted object, set the depth's colour
quoted_colors_parse_color(cid, attr, q_level, C) ==
  IF cid # "MT_COLOR_QUOTED"
    THEN [handled |-> FALSE, rc |-> "MUTT_CMD_SUCCESS", err |-> "", colors |-> C]
    ELSE [handled |-> TRUE, rc |-> "MUTT_CMD_SUCCESS", err |-> "",
          colors |-> [C EXCEPT !.QuotedColors = MapSet(@, q_level, attr)]]

\* regex_colors_parse_status_list: bind the pattern, with its submatch, in
\* the list of the status object
regex_colors_parse_status_list(cid, pat, attr, match, C) ==
  IF cid # "MT_COLOR_STATUS"
    THEN [rc |-> "MUTT_CMD_ERROR", err |-> "", colors |-> C]
    ELSE LET r == add_pattern(MapGet(C.RegexLists, cid, <<>>), pat, attr, match) IN
         [rc |-> r.rc, err |-> r.err, colors |-> SetList(C, cid, r.list)]

\* simple_color_set: set the object's one colour
simple_color_set(cid, attr, C) ==
  [ok |-> TRUE, colors |-> [C EXCEPT !.SimpleColors = MapSet(@, cid, attr)]]

\* simple_color_reset: the object's one colour becomes unset
simple_color_reset(cid, C) == [C EXCEPT !.SimpleColors = MapDel(@, cid)]

\* quoted_colors_parse_uncolor: the depth's colour becomes unset
quoted_colors_parse_uncolor(cid, ql, C) ==
  [rc |-> "MUTT_CMD_SUCCESS", colors |-> [C EXCEPT !.QuotedColors = MapDel(@, ql)]]

\* the NULL passed for the pattern
NullPattern == Tok("(null)")

\* the list without the bindings of the pattern pat
WithoutPattern(list, pat) == SelectSeq(list, LAMBDA b : b.pattern # pat)

\* regex_colors_parse_uncolor: without a pattern, empty the object's list;
\* with one, remove its bindings and say whether there were any
regex_colors_parse_uncolor(cid, pat, uncolor, C) ==
  LET list == MapGet(C.RegexLists, cid, <<>>) IN
  IF cid \notin RegexColorLists THEN [ok |-> FALSE, colors |-> C]
  ELSE IF pat = NullPattern THEN [ok |-> TRUE, colors |-> SetList(C, cid, <<>>)]
  ELSE [ok |-> WithoutPattern(list, pat) # list,
        colors |-> SetList(C, cid, WithoutPattern(list, pat))]

\* colors_cleanup: every tier is emptied
colors_cleanup(C) == EmptyColors

\* mutt_str_atoui_full(x, &match): the whole of x is an unsigned decimal
mutt_str_atoui_full(t) ==
  IF (t.word = "") /\ IsDecimal(t.suffix)
    THEN [ok |-> TRUE, val |-> DecValue(t.suffix, 0, Len(t.suffix))]
    ELSE [ok |-> FALSE, val |-> 0]

\* a variant of the test of line 375 that lets every directive through
NeverTooMany(cid, s) == FALSE

\* line 375: tokens are left and the object is not the status object
TooManyArguments(cid, s) == MoreArgs(s) /\ (cid # "MT_COLOR_STATUS")

\* lines 391-392: the display is up and the directive needs default colours
NeedsDefaultColors(E, fg, bg, cid) ==
  /\ ~E.OptNoCurses
  /\ (fg = COLOR_DEFAULT) \/ (bg = COLOR_DEFAULT) \/ (cid = "MT_COLOR_TREE")

\* a variant of the status branch that binds the pattern before it looks at
\* the tokens after it
StatusBranchBindsFirst(cid, attr, s, C, probed) ==
  LET pat == Head(s)
      s1 == Tail(s)
      num == IF MoreArgs(s1) THEN mutt_str_atoui_full(Head(s1))
                             ELSE [ok |-> TRUE, val |-> 0]
      s2 == IF MoreArgs(s1) THEN Tail(s1) ELSE s1
      r == regex_colors_parse_status_list(cid, pat, attr, num.val, C)
  IN IF ~num.ok
       THEN Returned("MUTT_CMD_WARNING", "invalid number", r.colors, <<>>, probed, s2)
     ELSE IF MoreArgs(s2)
       THEN Returned("MUTT_CMD_WARNING", "too many arguments", r.colors, <<>>,
                     probed, s2)
     ELSE Returned(r.rc, r.err, r.colors, <<>>, probed, s2)

\* lines 411-441: the status object with tokens after the colours
StatusBranch(cid, attr, s, C, probed) ==
  LET pat == Head(s)
      s1 == Tail(s)
      num == IF MoreArgs(s1) THEN mutt_str_atoui_full(Head(s1))
                             ELSE [ok |-> TRUE, val |-> 0]
      s2 == IF MoreArgs(s1) THEN Tail(s1) ELSE s1
  IN IF ~num.ok
       THEN Returned("MUTT_CMD_WARNING", "invalid number", C, <<>>, probed, s2)
     ELSE IF MoreArgs(s2)
       THEN Returned("MUTT_CMD_WARNING", "too many arguments", C, <<>>, probed, s2)
     ELSE LET r == regex_colors_parse_status_list(cid, pat, attr, num.val, C) IN
          Returned(r.rc, r.err, r.colors, <<>>, probed, s2)

\* lines 399-459: the tier is chosen by the object; only the simple tier
\* goes on to the notification of lines 451-457
Dispatch(cid, q_level, pat, attr, s, C, probed) ==
  LET rl == regex_colors_parse_color_list(cid, pat, attr, C)
      qc == quoted_colors_parse_color(cid, attr, q_level, C)
      sc == simple_color_set(cid, attr, C)
  IN IF rl.handled THEN Returned(rl.rc, rl.err, rl.colors, <<>>, probed, s)
     ELSE IF qc.handled THEN Returned(qc.rc, qc.err, qc.colors, <<>>, probed, s)
     ELSE IF (cid = "MT_COLOR_STATUS") /\ MoreArgs(s)
       THEN StatusBranch(cid, attr, s, C, probed)
     ELSE IF sc.ok
       THEN Returned("MUTT_CMD_SUCCESS", "", sc.colors, <<cid>>, probed, s)
     ELSE Returned("MUTT_CMD_ERROR", "", C, <<>>, probed, s)

\* lines 361-397: the pattern, the count of tokens, the dry run and the
\* default colours; probe is what use_default_colors() returns if called
AfterColours(cid, q_level, fg, bg, attrs, s, dr, C, E, probe) ==
  LET takes == mutt_color_has_pattern(cid) /\ (cid # "MT_COLOR_STATUS")
      pat == IF takes /\ MoreArgs(s) THEN Head(s) ELSE Tok(".*")
      s1 == IF takes /\ MoreArgs(s) THEN Tail(s) ELSE s
      probed == IF NeedsDefaultColors(E, fg, bg, cid) THEN probe ELSE "none"
  IN IF TooManyArguments(cid, s1)
       THEN Returned("MUTT_CMD_WARNING", "too many arguments", C, <<>>, "none", s1)
     ELSE IF dr THEN Returned("MUTT_CMD_SUCCESS", "", C, <<>>, "none", <<>>)
     ELSE IF probed = "ERR"
       THEN Returned("MUTT_CMD_ERROR", "default colors not supported", C, <<>>,
                     probed, s1)
     ELSE Dispatch(cid, q_level, pat, AttrColor(fg, bg, attrs), s1, C, probed)

\* lines 327-460
parse_color(s, callback, dr, color, C, E, probe) ==
  IF ~MoreArgs(s)
    THEN IF E.StartupComplete
           THEN Returned("MUTT_CMD_SUCCESS", "", C, <<>>, "none", s)
           ELSE Returned("MUTT_CMD_WARNING", "too few arguments", C, <<>>, "none", s)
  ELSE LET o == parse_object(Head(s), Tail(s)) IN
       IF o.rc # "MUTT_CMD_SUCCESS"
         THEN Returned(o.rc, o.err, C, <<>>, "none", o.rest)
       ELSE LET cb == Callback(callback, o.rest, 0, 0, {}) IN
            IF cb.rc # "MUTT_CMD_SUCCESS"
              THEN Returned(cb.rc, cb.err, C, <<>>, "none", cb.rest)
            ELSE AfterColours(o.cid, o.ql, cb.fg, cb.bg, cb.attrs, cb.rest, dr,
                              C, E, probe)

\* a variant of the comparison with "*" that never finds it
NeverStar(t) == FALSE

\* lines 232 and 295: mutt_str_equal(buf->data, "*")
IsStar(t) == t = Tok("*")

\* lines 291-305: the loop over the patterns; s is not empty
RECURSIVE UncolorPatterns(_, _, _, _)
UncolorPatterns(cid, s, uncolor, C) ==
  LET all == regex_colors_parse_uncolor(cid, NullPattern, uncolor, C)
      one == regex_colors_parse_uncolor(cid, Head(s), uncolor, C)
  IN IF IsStar(Head(s))
       THEN Returned(IF all.ok THEN "MUTT_CMD_SUCCESS" ELSE "MUTT_CMD_ERROR", "",
                     all.colors, <<>>, "none", Tail(s))
     ELSE IF MoreArgs(Tail(s))
       THEN UncolorPatterns(cid, Tail(s), uncolor, one.colors)
     ELSE Returned("MUTT_CMD_SUCCESS", "", one.colors, <<>>, "none", Tail(s))

\* a variant of the removal that has no case for the bare status object
UncolorResolvedNoStatusCase(cid, ql, s, uncolor, C, E) ==
  LET q == quoted_colors_parse_uncolor(cid, ql, C)
      all == regex_colors_parse_uncolor(cid, NullPattern, uncolor, C)
  IN IF cid = "MT_COLOR_QUOTED" THEN Returned(q.rc, "", q.colors, <<>>, "none", s)
     ELSE IF ~mutt_color_has_pattern(cid)
       THEN Returned("MUTT_CMD_SUCCESS", "", simple_color_reset(cid, C), <<>>,
                     "none", s)
     ELSE IF E.OptNoCurses
       THEN Returned("MUTT_CMD_SUCCESS", "", C, <<>>, "none", <<>>)
     ELSE IF ~MoreArgs(s)
       THEN Returned(IF all.ok THEN "MUTT_CMD_SUCCESS" ELSE "MUTT_CMD_ERROR", "",
                     all.colors, <<>>, "none", s)
     ELSE UncolorPatterns(cid, s, uncolor, C)

\* lines 250-310: the removal, once the object is resolved
UncolorResolved(cid, ql, s, uncolor, C, E) ==
  LET q == quoted_colors_parse_uncolor(cid, ql, C)
      all == regex_colors_parse_uncolor(cid, NullPattern, uncolor, C)
  IN IF cid = "MT_COLOR_QUOTED" THEN Returned(q.rc, "", q.colors, <<>>, "none", s)
     ELSE IF (cid = "MT_COLOR_STATUS") /\ ~MoreArgs(s)
       THEN Returned("MUTT_CMD_SUCCESS", "", simple_color_reset(cid, C), <<>>,
                     "none", s)
     ELSE IF ~mutt_color_has_pattern(cid)
       THEN Returned("MUTT_CMD_SUCCESS", "", simple_color_reset(cid, C), <<>>,
                     "none", s)
     ELSE IF E.OptNoCurses
       THEN Returned("MUTT_CMD_SUCCESS", "", C, <<>>, "none", <<>>)
     ELSE IF ~MoreArgs(s)
       THEN Returned(IF all.ok THEN "MUTT_CMD_SUCCESS" ELSE "MUTT_CMD_ERROR", "",
                     all.colors, <<>>, "none", s)
     ELSE UncolorPatterns(cid, s, uncolor, C)

\* lines 227-311; the token extracted from an empty s is the empty token
parse_uncolor(s, uncolor, C, E) ==
  LET t == IF MoreArgs(s) THEN Head(s) ELSE Tok("")
      s0 == IF MoreArgs(s) THEN Tail(s) ELSE s
      o == parse_object(t, s0)
  IN IF IsStar(t)
       THEN Returned("MUTT_CMD_SUCCESS", "", colors_cleanup(C), <<>>, "none", s0)
     ELSE IF o.rc # "MUTT_CMD_SUCCESS"
       THEN Returned(o.rc, o.err, C, <<>>, "none", o.rest)
     ELSE IF o.cid = NotInMap
       THEN Returned("MUTT_CMD_ERROR", "no such object", C, <<>>, "none", o.rest)
     ELSE UncolorResolved(o.cid, o.ql, o.rest, uncolor, C, E)

\* lines 465-477
mutt_parse_uncolor(s, C, E) ==
  IF E.OptNoCurses
    THEN Returned("MUTT_CMD_SUCCESS", "", C, <<>>, "none", <<>>)
    ELSE parse_uncolor(s, TRUE, C, E)

\* lines 482-487
mutt_parse_unmono(s, C, E) ==
  Returned("MUTT_CMD_SUCCESS", "", C, <<>>, "none", <<>>)

\* lines 492-501
mutt_parse_color(s, C, E, probe) ==
  parse_color(s, "parse_color_pair", E.OptNoCurses, TRUE, C, E, probe)

\* lines 506-510
mutt_parse_mono(s, C, E, probe) ==
  parse_color(s, "parse_attr_spec", FALSE, FALSE, C, E, probe)

-----------------------------------------------------------------------------
(* The directives interpreted *)

PatA == Tok("pA")
PatB == Tok("pB")
One == Fused("", <<"1">>)
NotANumber == Fused("", <<"x">>)

\* an object and the tokens after the colours: the objects are a simple one,
\* the tree, the quoted text, one with a list of patterns, and the status
SimpleTrails ==
  { <<o, t>> : o \in { <<Tok("normal")>>, <<Tok("tree")>>, <<Tok("quoted")>> },
               t \in { <<>>, <<PatA>> } }

IndexTrails ==
  { <<o, t>> : o \in { <<Tok("index")>> },
               t \in { <<>>, <<PatA>>, <<PatB>>, <<PatA, One>> } }

StatusTrails ==
  { <<o, t>> : o \in { <<Tok("status")>> },
               t \in { <<>>, <<PatA>>, <<PatA, One>>, <<PatA, NotANumber>>,
                       <<PatA, One, PatB>> } }

ObjectTrails == SimpleTrails \cup IndexTrails \cup StatusTrails

ColorArgs ==
  { ot[1] \o <<Tok("red"), Tok("blue")>> \o ot[2] : ot \in ObjectTrails }
    \cup { <<>>, <<Tok("bogus"), Tok("red"), Tok("blue")>>,
           <<Tok("normal"), Tok("red")>>,
           <<Tok("normal"), Tok("puce"), Tok("red")>>,
           <<Tok("normal"), Tok("red"), Tok("default")>>,
           <<Tok("tree"), Tok("default"), Tok("blue")>>,
           <<Tok("index"), Tok("red"), Tok("default")>>,
           <<Tok("index"), Tok("red"), Tok("blue"), Tok("[")>>,
           <<Tok("status"), Tok("red"), Tok("default"), PatA, One, PatB>> }

MonoArgs ==
  { ot[1] \o <<Tok("bold")>> \o ot[2] : ot \in ObjectTrails \ {<<<<Tok("index")>>, <<PatB>>>>} }
    \cup { <<>>, <<Tok("bogus"), Tok("bold")>>, <<Tok("normal"), Tok("puce")>> }

UncolorArgs ==
  { <<>>, <<Tok("*")>>, <<Tok("bogus")>>, <<Tok("normal")>>, <<Tok("quoted")>>,
    <<Tok("normal"), PatA>>,
    <<Tok("index")>>, <<Tok("index"), PatA>>, <<Tok("index"), PatA, PatB>>,
    <<Tok("index"), PatA, Tok("*")>>,
    <<Tok("status")>>, <<Tok("status"), PatA>>, <<Tok("status"), Tok("*")>> }

UnmonoArgs == { <<Tok("*")>>, <<Tok("status")>>, <<Tok("index"), PatA>> }

ProbeResults == {"OK", "ERR"}

Env == [OptNoCurses |-> OptNoCurses, StartupComplete |-> StartupComplete]

InitDir ==
  /\ IdleAnsiCall
  /\ str = <<>>
  /\ len_ret = -1
  /\ IdleObject
  /\ OptNoCurses \in BOOLEAN
  /\ StartupComplete \in BOOLEAN
  /\ colors = EmptyColors
  /\ directive = NoDirective
  /\ ndirs = 0

\* the directive name with the tokens s has returned r
Interpreted(name, s, r) ==
  /\ colors' = r.colors
  /\ directive' = [name |-> name, args |-> s, rc |-> r.rc, err |-> r.err,
                   sent |-> r.sent, probed |-> r.probed, rest |-> r.rest,
                   changed |-> (r.colors # colors)]
  /\ ndirs' = ndirs + 1
  /\ UNCHANGED <<OptNoCurses, StartupComplete, ansiVars, lenVars, objVars>>

MuttParseColor ==
  /\ ndirs < MaxDirs
  /\ \E s \in ColorArgs : \E probe \in ProbeResults :
       Interpreted("color", s, mutt_parse_color(s, colors, Env, probe))

MuttParseMono ==
  /\ ndirs < MaxDirs
  /\ \E s \in MonoArgs : \E probe \in ProbeResults :
       Interpreted("mono", s, mutt_parse_mono(s, colors, Env, probe))

MuttParseUncolor ==
  /\ ndirs < MaxDirs
  /\ \E s \in UncolorArgs :
       Interpreted("uncolor", s, mutt_parse_uncolor(s, colors, Env))

MuttParseUnmono ==
  /\ ndirs < MaxDirs
  /\ \E s \in UnmonoArgs :
       Interpreted("unmono", s, mutt_parse_unmono(s, colors, Env))

NextDir == MuttParseColor \/ MuttParseMono \/ MuttParseUncolor \/ MuttParseUnmono

SpecDir == InitDir /\ [][NextDir]_vars

-----------------------------------------------------------------------------
(* Claims about the directives *)

\* a directive has been interpreted
Ran == directive.name # "none"

\* the directive was interpreted as a dry run
DryRun == (directive.name = "color") /\ OptNoCurses

\* what the object resolver and the colour callback make of the directive
DirObject == parse_object(Head(directive.args), Tail(directive.args))

DirColours ==
  Callback(IF directive.name = "color" THEN "parse_color_pair" ELSE "parse_attr_spec",
           DirObject.rest, 0, 0, {})

\* a color or mono directive whose object resolves and whose colours parse
HasColours ==
  /\ Ran
  /\ directive.name \in {"color", "mono"}
  /\ directive.args # <<>>
  /\ DirObject.rc = "MUTT_CMD_SUCCESS"
  /\ DirColours.rc = "MUTT_CMD_SUCCESS"

\* the tokens after the colours
DirTrail == DirColours.rest

\* the tokens after the colours are as many as the object takes, and the
\* submatch of the status object is a number
TrailFits(cid, t) ==
  IF cid = "MT_COLOR_STATUS"
    THEN (Len(t) <= 2) /\ ((Len(t) = 2) => mutt_str_atoui_full(t[2]).ok)
  ELSE IF mutt_color_has_pattern(cid) THEN Len(t) <= 1
  ELSE Len(t) = 0

\* C12: while OptNoCurses is set, a color or a mono directive changes no tier
\* and sends no notification, and one whose tokens are well formed returns
\* success.
C12_NoCursesFrame ==
  (Ran /\ OptNoCurses /\ directive.name \in {"color", "mono"}) =>
    /\ ~directive.changed
    /\ directive.sent = <<>>
    /\ (HasColours /\ TrailFits(DirObject.cid, DirTrail)) =>
         directive.rc = "MUTT_CMD_SUCCESS"

C14_UncolorStar ==
  (Ran /\ ~OptNoCurses /\ directive.name = "uncolor"
       /\ directive.args = <<Tok("*")>>) =>
    /\ directive.rc = "MUTT_CMD_SUCCESS"
    /\ colors = EmptyColors
    /\ mutt_parse_uncolor(directive.args, colors, Env).rc = "MUTT_CMD_SUCCESS"
    /\ mutt_parse_uncolor(directive.args, colors, Env).colors = colors

C14_Witness ==
  /\ Ran
  /\ ndirs = MaxDirs
  /\ directive.name = "uncolor"
  /\ directive.args = <<Tok("*")>>
  /\ directive.changed
  /\ colors = EmptyColors

\* C15: unmono is the removal of uncolor run with the mono flag: it leaves
\* the tiers, and returns, as parse_uncolor does on the same tokens.
C15_UnmonoStep ==
  (ndirs' # ndirs /\ directive'.name = "unmono") =>
    /\ colors' = parse_uncolor(directive'.args, FALSE, colors, Env).colors
    /\ directive'.rc = parse_uncolor(directive'.args, FALSE, colors, Env).rc

C15_UnmonoRemoves == [][C15_UnmonoStep]_vars

\* C16: with the display initialised, "uncolor status" with no token after it
\* returns success, unsets the simple colour of the status object and
\* changes nothing else: the list of the status object and every other
\* binding are as before; issued again it returns success and changes nothing.
C16_Step ==
  (/\ ndirs' # ndirs
   /\ ~OptNoCurses
   /\ directive'.name = "uncolor"
   /\ directive'.args = <<Tok("status")>>) =>
    /\ directive'.rc = "MUTT_CMD_SUCCESS"
    /\ colors' = [colors EXCEPT !.SimpleColors = MapDel(@, "MT_COLOR_STATUS")]
    /\ mutt_parse_uncolor(directive'.args, colors', Env).rc = "MUTT_CMD_SUCCESS"
    /\ mutt_parse_uncolor(directive'.args, colors', Env).colors = colors'

C16_UncolorBareStatus == [][C16_Step]_vars

C16_Witness ==
  /\ Ran
  /\ directive.name = "uncolor"
  /\ directive.args = <<Tok("status")>>
  /\ directive.changed
  /\ "MT_COLOR_STATUS" \in DOMAIN colors.RegexLists
  /\ "MT_COLOR_STATUS" \notin DOMAIN colors.SimpleColors

ReachesProbe ==
  /\ HasColours
  /\ ~DryRun
  /\ ~TooManyArguments(DirObject.cid,
                       IF mutt_color_has_pattern(DirObject.cid) /\ DirTrail # <<>>
                            /\ DirObject.cid # "MT_COLOR_STATUS"
                         THEN Tail(DirTrail) ELSE DirTrail)

WantsDefault ==
  \/ DirColours.fg = COLOR_DEFAULT
  \/ DirColours.bg = COLOR_DEFAULT
  \/ DirObject.cid = "MT_COLOR_TREE"

\* C18: a color directive with the display initialised returns "default
\* colors not supported" exactly when a colour is the default or the object
\* is the tree, and the probe fails, and then no tier is changed; a mono
\* directive never makes the probe and never returns that error.
C18_DefaultColors ==
  Ran =>
    /\ (directive.name = "color" /\ ~OptNoCurses) =>
         /\ (directive.err = "default colors not supported")
              <=> (ReachesProbe /\ WantsDefault /\ directive.probed = "ERR")
         /\ (ReachesProbe /\ WantsDefault) => directive.probed # "none"
         /\ (directive.err = "default colors not supported") =>
              (directive.rc = "MUTT_CMD_ERROR" /\ ~directive.changed)
    /\ (directive.name = "mono") =>
         /\ directive.probed = "none"
         /\ directive.err # "default colors not supported"

\* the directive failed with the warning e and installed nothing
FailsWith(e) ==
  /\ directive.rc = "MUTT_CMD_WARNING"
  /\ directive.err = e
  /\ ~directive.changed
  /\ directive.sent = <<>>

CountErrors == {"too many arguments", "invalid number"}

\* the bound on the tokens after the colours, by the kind of the object;
\* always: also when the probe for default colours has failed
TrailBounded(always) ==
  LET cid == DirObject.cid
      t == DirTrail
      past == always \/ (directive.probed # "ERR")
  IN (HasColours /\ ~DryRun) =>
       /\ (mutt_color_has_pattern(cid) /\ cid # "MT_COLOR_STATUS") =>
            /\ (Len(t) >= 2) => FailsWith("too many arguments")
            /\ (Len(t) <= 1) => directive.err \notin CountErrors
            /\ (directive.rc = "MUTT_CMD_SUCCESS") =>
                 \E i \in DOMAIN colors.RegexLists[cid] :
                   colors.RegexLists[cid][i].pattern
                     = IF Len(t) = 1 THEN t[1] ELSE Tok(".*")
       /\ (~mutt_color_has_pattern(cid)) =>
            /\ (Len(t) >= 1) => FailsWith("too many arguments")
            /\ (Len(t) = 0) => directive.err \notin CountErrors
       /\ (cid = "MT_COLOR_STATUS") =>
            /\ (Len(t) >= 2 /\ ~mutt_str_atoui_full(t[2]).ok /\ past) =>
                 FailsWith("invalid number")
            /\ (Len(t) >= 3 /\ mutt_str_atoui_full(t[2]).ok /\ past) =>
                 FailsWith("too many arguments")
            /\ TrailFits(cid, t) => directive.err \notin CountErrors
            /\ (~TrailFits(cid, t)) =>
                 (directive.rc # "MUTT_CMD_SUCCESS" /\ ~directive.changed)

RealRun(noCurses, probe) ==
  parse_color(directive.args, "parse_color_pair", FALSE, TRUE, colors,
              [Env EXCEPT !.OptNoCurses = noCurses], probe)

\* C21: when a color directive interpreted as a dry run has returned success,
\* the run of the same tokens with dry_run clear does not fail with "too many
\* arguments" or "invalid number", whatever the object, the status object
\* with tokens after its colours included.
C21_DryRunAgrees ==
  (Ran /\ DryRun /\ directive.rc = "MUTT_CMD_SUCCESS") =>
    \A noCurses \in BOOLEAN : \A probe \in ProbeResults :
      RealRun(noCurses, probe).err \notin CountErrors

====
